---- MODULE Spec2Model ----
(***************************************************************************)
(* A model of project-import-audit.py: the import extractor                *)
(* (find_imports_in_file), the source scanner (scan_all_py_files, built on *)
(* os.walk), the manifest reader (read_requirements) and the reporter      *)
(* (the __main__ block).                                                   *)
(*                                                                         *)
(* Text is modelled as sequences of one-character strings so that          *)
(* str.strip, str.startswith, str.endswith, str.split, str.lower and the   *)
(* ordering used by sorted() are computed, not assumed.                    *)
(***************************************************************************)
EXTENDS Integers, Sequences, FiniteSets, TLC

VARIABLES
    fsFiles,      \* the files of the scanned tree: records [dir, name, kind, valid, tree]
    dstate,       \* state of every directory of the tree: "ok", "denied", "symlink", "missing"
    manifest,     \* requirements.txt: [kind, lines]
    pc,           \* position of the __main__ block
    stack,        \* os.walk: directories still to be listed
    files,        \* the inner for loop: files of the yielded directory not yet visited
    root,         \* os.walk: the directory yielded last
    all_imports,  \* scan_all_py_files: the accumulator
    opened,       \* the paths given to open(), in order
    lastResult,   \* what the last completed find_imports_in_file call returned
    lastTree,     \* the syntax tree that call parsed
    imports,      \* __main__: imports
    lineIdx,      \* read_requirements: number of manifest lines consumed
    pkgs,         \* read_requirements: the accumulator
    reqs,         \* __main__: reqs
    stdout,       \* the lines printed so far: records [label, list]
    err           \* the uncaught exception that ended the run, or NoError

vars == <<fsFiles, dstate, manifest, pc, stack, files, root, all_imports, opened,
          lastResult, lastTree, imports, lineIdx, pkgs, reqs, stdout, err>>

----------------------------------------------------------------------------
(* Bounds of the model.                                                    *)

\* longest manifest line of the exhaustive family of manifests
MaxLineLen == 4
\* deepest chain of nested directories below the scan root
MaxDepth == 2
\* most files placed in the scanned tree
MaxFiles == 2
\* deepest nesting of an import statement inside compound statements
MaxNest == 2

----------------------------------------------------------------------------
(* Characters and strings.                                                 *)

UpperCase == <<"A","B","C","D","E","F","G","H","I","J","K","L","M",
               "N","O","P","Q","R","S","T","U","V","W","X","Y","Z">>
LowerCase == <<"a","b","c","d","e","f","g","h","i","j","k","l","m",
               "n","o","p","q","r","s","t","u","v","w","x","y","z">>

\* The characters of the model in code-point order (the order Python compares
\* one-character strings in).
CodePoints == <<" ", "!", "#", ".", "0", "1", "2", "3", "5", "<", "=", ">">>
              \o UpperCase \o LowerCase \o <<"~">>

Ord(c) == CHOOSE i \in 1..Len(CodePoints) : CodePoints[i] = c

\* the characters str.strip() removes that the modelled lines contain
Whitespace == {" ", "\t", "\n"}

Range(s) == {s[i] : i \in 1..Len(s)}

\* s[i:] for a 1-based i
Drop(s, n) == SubSeq(s, n + 1, Len(s))
Take(s, n) == SubSeq(s, 1, n)

\* str.startswith / str.endswith
StartsWith(s, p) == Len(p) <= Len(s) /\ Take(s, Len(p)) = p
EndsWith(s, p) == Len(p) <= Len(s) /\ Drop(s, Len(s) - Len(p)) = p

\* str.find, 1-based; 0 when sep does not occur
Occurs(s, sep, i) == i + Len(sep) - 1 <= Len(s) /\ SubSeq(s, i, i + Len(sep) - 1) = sep
Find(s, sep) ==
    IF \E i \in 1..Len(s) : Occurs(s, sep, i)
    THEN CHOOSE i \in 1..Len(s) :
            Occurs(s, sep, i) /\ \A j \in 1..(i - 1) : ~Occurs(s, sep, j)
    ELSE 0

\* s.split(sep)[0]
SplitFirst(s, sep) == IF Find(s, sep) = 0 THEN s ELSE Take(s, Find(s, sep) - 1)

\* str.strip()
LStripCount(s) ==
    IF \A i \in 1..Len(s) : s[i] \in Whitespace THEN Len(s)
    ELSE (CHOOSE i \in 1..Len(s) :
            s[i] \notin Whitespace /\ \A j \in 1..(i - 1) : s[j] \in Whitespace) - 1
RStripEnd(s) ==
    IF \A i \in 1..Len(s) : s[i] \in Whitespace THEN 0
    ELSE CHOOSE i \in 1..Len(s) :
            s[i] \notin Whitespace /\ \A j \in (i + 1)..Len(s) : s[j] \in Whitespace
Strip(s) == SubSeq(s, LStripCount(s) + 1, RStripEnd(s))

\* str.lower()
LowerChar(c) ==
    IF \E i \in 1..Len(UpperCase) : UpperCase[i] = c
    THEN LowerCase[CHOOSE i \in 1..Len(UpperCase) : UpperCase[i] = c]
    ELSE c
Lower(s) == [i \in 1..Len(s) |-> LowerChar(s[i])]

\* s < t for Python strings
StrLess(s, t) ==
    \/ Len(s) < Len(t) /\ Take(t, Len(s)) = s
    \/ \E i \in 1..Len(s) :
          /\ i <= Len(t)
          /\ Take(s, i - 1) = Take(t, i - 1)
          /\ Ord(s[i]) < Ord(t[i])

\* sorted(S) for a set of strings
RECURSIVE Sorted(_)
Sorted(S) ==
    IF S = {} THEN <<>>
    ELSE LET m == CHOOSE x \in S : \A y \in S \ {x} : StrLess(x, y)
         IN <<m>> \o Sorted(S \ {m})

----------------------------------------------------------------------------
(* String literals of the program and of the modelled inputs.               *)

S_os == <<"o", "s">>
S_sys == <<"s", "y", "s">>
S_s == <<"s">>
S_foo_bar == <<"f", "o", "o", ".", "b", "a", "r">>
S_baz == <<"b", "a", "z">>
S_PIL == <<"P", "I", "L">>
S_requests == <<"r", "e", "q", "u", "e", "s", "t", "s">>
S_flask == <<"f", "l", "a", "s", "k">>
S_Flask == <<"F", "l", "a", "s", "k">>
S_pkg == <<"p", "k", "g">>
S_pkg_sub == <<"p", "k", "g", ".", "s", "u", "b">>
S_x == <<"x">>
S_dot == <<".">>
S_hash == <<"#">>
S_eqeq == <<"=", "=">>
S_ge == <<">", "=">>
S_le == <<"<", "=">>
S_dot_py == <<".", "p", "y">>
S_m_py == <<"m", ".", "p", "y">>
S_n_py == <<"n", ".", "p", "y">>
S_l_py == <<"l", ".", "p", "y">>
S_m_pyc == <<"m", ".", "p", "y", "c">>
S_d == <<"d">>
S_e == <<"e">>

----------------------------------------------------------------------------
(* Syntax trees, as ast.parse builds them.  Every node is a record of one   *)
(* shape; a field a node type does not have is empty.  module = <<>> stands *)
(* for ImportFrom.module = None ("from . import x"); "if item.module" is    *)
(* false for it.                                                            *)

Node(type, name, asname, module, level, names, body) ==
    [type |-> type, name |-> name, asname |-> asname, module |-> module,
     level |-> level, names |-> names, body |-> body]

\* ast.alias(name, asname); asname = <<>> when there is no "as"
Alias(name, asname) == Node("alias", name, asname, <<>>, 0, <<>>, <<>>)
\* ast.Import(names)
ImportStmt(names) == Node("Import", <<>>, <<>>, <<>>, 0, names, <<>>)
\* ast.ImportFrom(module, names, level)
ImportFromStmt(module, names, level) == Node("ImportFrom", <<>>, <<>>, module, level, names, <<>>)
\* a statement that is no import (ast.Expr, ast.Pass, ...)
ExprStmt == Node("Expr", <<>>, <<>>, <<>>, 0, <<>>, <<>>)
\* a compound statement: ast.FunctionDef, ast.ClassDef, ast.If, ast.Try
Compound(type, body) == Node(type, <<>>, <<>>, <<>>, 0, <<>>, body)
\* ast.Module(body)
ModuleNode(body) == Node("Module", <<>>, <<>>, <<>>, 0, <<>>, body)

\* ast.iter_child_nodes(node)
iter_child_nodes(node) == node.names \o node.body

\* ast.walk(node): breadth first, todo is the deque
RECURSIVE walk_todo(_)
walk_todo(todo) ==
    IF todo = <<>> THEN <<>>
    ELSE <<Head(todo)>> \o walk_todo(Tail(todo) \o iter_child_nodes(Head(todo)))

\* a faulty variant of ast_walk: only the statements at module level are looked at
ast_walk_TopLevelOnly(node) == <<node>> \o node.body

ast_walk(node) == walk_todo(<<node>>)

\* a faulty variant of item_modules: relative imports (level > 0) are skipped
item_modules_AbsoluteOnly(item) ==
    IF item.type = "Import"
    THEN {SplitFirst(item.names[k].name, S_dot) : k \in 1..Len(item.names)}
    ELSE IF item.type = "ImportFrom" /\ Len(item.module) > 0 /\ item.level = 0
         THEN {SplitFirst(item.module, S_dot)}
         ELSE {}

\* the body of the loop of find_imports_in_file: what one node adds to modules
item_modules(item) ==
    IF item.type = "Import"
    THEN {SplitFirst(item.names[k].name, S_dot) : k \in 1..Len(item.names)}
    ELSE IF item.type = "ImportFrom" /\ Len(item.module) > 0
         THEN {SplitFirst(item.module, S_dot)}
         ELSE {}

\* find_imports_in_file after the parse: the set the loop over ast.walk builds
find_imports(tree) ==
    LET items == ast_walk(tree)
    IN UNION {item_modules(items[i]) : i \in 1..Len(items)}

(* The import statements of the modelled source files. *)
Atoms ==
    { ImportStmt(<<Alias(S_os, <<>>)>>),                                 \* import os
      ImportStmt(<<Alias(S_sys, S_s)>>),                                 \* import sys as s
      ImportStmt(<<Alias(S_foo_bar, <<>>)>>),                            \* import foo.bar
      ImportStmt(<<Alias(S_PIL, <<>>)>>),                                \* import PIL
      ImportStmt(<<Alias(S_requests, <<>>)>>),                           \* import requests
      ImportStmt(<<Alias(S_os, <<>>), Alias(S_foo_bar, S_s)>>),          \* import os, foo.bar as s
      ImportFromStmt(S_foo_bar, <<Alias(S_baz, <<>>)>>, 0),              \* from foo.bar import baz
      ImportFromStmt(S_os, <<Alias(S_x, S_s)>>, 0),                      \* from os import x as s
      ImportFromStmt(S_pkg, <<Alias(S_x, <<>>)>>, 0),                    \* from pkg import x
      ImportFromStmt(<<>>, <<Alias(S_x, <<>>)>>, 1),                     \* from . import x
      ImportFromStmt(<<>>, <<Alias(S_x, <<>>)>>, 2),                     \* from .. import x
      ImportFromStmt(S_pkg, <<Alias(S_x, <<>>)>>, 1),                    \* from .pkg import x
      ImportFromStmt(S_pkg_sub, <<Alias(S_x, <<>>)>>, 1),                \* from .pkg.sub import x
      ImportFromStmt(S_pkg, <<Alias(S_x, <<>>)>>, 2) }                   \* from ..pkg import x

\* the statements that follow another one in a two-statement file
SecondAtoms ==
    { ImportStmt(<<Alias(S_sys, S_s)>>),                                 \* import sys as s
      ImportFromStmt(S_flask, <<Alias(S_Flask, <<>>)>>, 0),              \* from flask import Flask
      ImportFromStmt(<<>>, <<Alias(S_x, <<>>)>>, 1) }                    \* from . import x

\* a statement nested d levels deep: def f(): ... / try: ...
WrapType(d) == IF d % 2 = 1 THEN "FunctionDef" ELSE "Try"
RECURSIVE AtDepth(_)
AtDepth(d) ==
    IF d = 0 THEN Atoms
    ELSE {Compound(WrapType(d), <<ExprStmt, s>>) : s \in AtDepth(d - 1)}

Statements == UNION {AtDepth(d) : d \in 0..MaxNest}

\* the syntax trees of the modelled source files
Trees ==
    {ModuleNode(<<>>)}
    \cup {ModuleNode(<<s>>) : s \in Statements}
    \cup {ModuleNode(<<s, a>>) : s \in Statements, a \in SecondAtoms}

----------------------------------------------------------------------------
(* The scanned directory tree.  A path is the sequence of its components    *)
(* below source_dir; <<>> is source_dir itself.                             *)

DirChain(k) == [i \in 1..k |-> S_d]

\* the directories: a chain d, d/d, ... and a sibling e of d
DirPaths == {DirChain(k) : k \in 0..MaxDepth} \cup {<<S_e>>}

\* the entries of directory p that are directories (entry.is_dir())
SubDirs(p) == {q \in DirPaths : Len(q) = Len(p) + 1 /\ Take(q, Len(p)) = p}

\* what a directory entry that is not a directory can be
FileVariants ==
    { [name |-> S_m_py, kind |-> "file", valid |-> TRUE,
       tree |-> ModuleNode(<<ImportStmt(<<Alias(S_os, <<>>)>>)>>)],
      [name |-> S_n_py, kind |-> "file", valid |-> TRUE,
       tree |-> ModuleNode(<<Compound("FunctionDef",
                    <<ImportFromStmt(S_foo_bar, <<Alias(S_baz, <<>>)>>, 0)>>)>>)],
      \* a file that is not valid Python: ast.parse raises SyntaxError
      [name |-> S_n_py, kind |-> "file", valid |-> FALSE, tree |-> ModuleNode(<<>>)],
      \* a file open() is refused for (PermissionError)
      [name |-> S_n_py, kind |-> "unreadable", valid |-> TRUE, tree |-> ModuleNode(<<>>)],
      \* a symbolic link to nothing (FileNotFoundError)
      [name |-> S_l_py, kind |-> "brokenlink", valid |-> TRUE, tree |-> ModuleNode(<<>>)],
      \* a file whose name does not end with .py
      [name |-> S_m_pyc, kind |-> "file", valid |-> TRUE,
       tree |-> ModuleNode(<<ImportStmt(<<Alias(S_requests, <<>>)>>)>>)] }

FileAt(p, v) == [dir |-> p, name |-> v.name, kind |-> v.kind, valid |-> v.valid, tree |-> v.tree]

Placements == {FileAt(p, v) : p \in DirPaths, v \in FileVariants}

\* a directory holds one entry per name
DistinctNames(S) == \A f \in S, g \in S : (f.dir = g.dir /\ f.name = g.name) => f = g

RECURSIVE FileSetsUpTo(_)
FileSetsUpTo(k) ==
    IF k = 0 THEN {{}}
    ELSE LET smaller == FileSetsUpTo(k - 1)
         IN smaller \cup {S \cup {f} : S \in smaller, f \in Placements}

FileSets == {S \in FileSetsUpTo(MaxFiles) : DistinctNames(S)}

AllOk == [p \in DirPaths |-> "ok"]

\* every directory listable, or one directory that is not: source_dir missing or
\* unlistable; a directory below it unlistable, or a symbolic link to a directory
DirStates ==
    {AllOk}
    \cup {[AllOk EXCEPT ![<<>>] = s] : s \in {"denied", "missing"}}
    \cup {[AllOk EXCEPT ![p] = s] : p \in DirPaths \ {<<>>}, s \in {"denied", "symlink"}}

\* a tree of one file, m.py in source_dir
SingleFile(tree) ==
    {[dir |-> <<>>, name |-> S_m_py, kind |-> "file", valid |-> TRUE, tree |-> tree]}

----------------------------------------------------------------------------
(* Manifests.                                                               *)

OkManifest(lines) == [kind |-> "ok", lines |-> lines]
MissingManifest == [kind |-> "missing", lines |-> <<>>]
DeniedManifest == [kind |-> "denied", lines |-> <<>>]

LineChars == {"a", "B", "=", "<", ">", " ", "#"}

\* every line over LineChars of at most MaxLineLen characters
AllLines == UNION {[1..k -> LineChars] : k \in 0..MaxLineLen}

L_Flask_pin == <<"F","l","a","s","k","=","=","2",".","0">>
L_requests_pin == <<"r","e","q","u","e","s","t","s","=","=","2",".","3","1">>
L_Requests_pin == <<"R","e","q","u","e","s","t","s","=","=","2",".","3","1",".","0">>
L_os_ge == <<"o","s",">","=","1",".","2","0">>
L_comment == <<"#"," ","c","o","m","m","e","n","t">>
L_pkg_gt == <<"p","k","g",">","1",".","0">>
L_pkg_compat == <<"p","k","g","~","=","1",".","0">>
L_pkg_ne == <<"p","k","g"," ","!","="," ","1",".","0">>
L_pkg_ge_spaced == <<"p","k","g"," ",">","="," ","1",".","0">>
L_dotted_pin == <<"f","o","o",".","b","a","r","=","=","5",".","0">>

L_overlap_ge == <<"a",">","=","=","1">>
L_overlap_le == <<"a","<","=","=","1">>
L_two_markers == <<"a",">","=","1","=","=","2">>

\* manifests written the way the documentation and users write them
WrittenManifests ==
    { MissingManifest, DeniedManifest,
      OkManifest(<<>>),
      OkManifest(<<L_Flask_pin, L_requests_pin>>),
      OkManifest(<<S_PIL>>),
      OkManifest(<<S_pkg>>),
      OkManifest(<<S_os, S_sys>>),
      \* lines as "for line in f" yields them, with their line ends
      OkManifest(<<L_comment \o <<"\n">>, <<"\n">>, <<" ", "\t">> \o L_Requests_pin \o <<"\n">>,
                   L_os_ge>>),
      OkManifest(<<L_pkg_gt>>),
      OkManifest(<<L_pkg_compat>>),
      OkManifest(<<L_pkg_ne>>),
      OkManifest(<<L_pkg_ge_spaced>>),
      OkManifest(<<L_dotted_pin, S_os>>),
      OkManifest(<<L_two_markers>>) }

\* manifests with a line in which two markers overlap
OverlapManifests ==
    { OkManifest(<<L_overlap_ge>>),
      OkManifest(<<L_overlap_le>>) }

----------------------------------------------------------------------------
(* The functions of the program.                                            *)

\* a faulty variant of is_source: '.py' anywhere in the name
is_source_Contains(name) == Find(name, S_dot_py) # 0

\* scan_all_py_files: file.endswith('.py')
is_source(name) == EndsWith(name, S_dot_py)

\* find_imports_in_file, open and parse: "ok", or the exception raised
file_outcome(f) ==
    IF f.kind # "file" THEN "OSError"
    ELSE IF ~f.valid THEN "SyntaxError"
    ELSE "ok"

\* faulty variants of propagates: the scan isolates one kind of per-file error
propagates_ExceptSyntaxError(outcome) == outcome = "OSError"
propagates_ExceptOSError(outcome) == outcome = "SyntaxError"

\* scan_all_py_files calls find_imports_in_file outside any try: whatever it
\* raises leaves scan_all_py_files
propagates(outcome) == outcome # "ok"

\* os.walk, onerror=None: scandir(top) raising OSError is swallowed and top skipped
scandir_fails(state) == state \in {"denied", "missing"}

\* os.walk, followlinks=False: a subdirectory that is a symbolic link is not entered
walk_enters(state) == state # "symlink"

\* a faulty variant of base_name: the '<=' marker is forgotten
base_name_NoLe(line) == SplitFirst(SplitFirst(line, S_eqeq), S_ge)

\* read_requirements: line.split('==')[0].split('>=')[0].split('<=')[0]
base_name(line) == SplitFirst(SplitFirst(SplitFirst(line, S_eqeq), S_ge), S_le)

\* read_requirements: what one line of the file adds to pkgs
line_packages(raw) ==
    LET line == Strip(raw)
    IN IF line # <<>> /\ ~StartsWith(line, S_hash)
       THEN {Lower(base_name(line))}
       ELSE {}

\* a faulty variant of manifest_open_fails: a manifest that cannot be opened reads as empty
manifest_open_fails_Never(m) == FALSE

\* read_requirements: open(reqfile, 'r') raises
manifest_open_fails(m) == m.kind # "ok"

\* a faulty variant of missing_of: the difference taken the wrong way round
missing_of_Swapped(imp, req) == req \ imp

\* __main__: imports - reqs and reqs - imports
missing_of(imp, req) == imp \ req
unused_of(imp, req) == req \ imp

NoError == [type |-> "none", at |-> "none"]

LabelImports == "Imports found in codebase:"
LabelPackages == "Packages in requirements.txt:"
LabelMissing == "Possibly missing in requirements.txt (used in code, not listed):"
LabelUnused == "Possibly unused in codebase (listed, but not imported directly):"

\* every arrangement of a set of at most a few elements as a sequence
Orderings(S) ==
    {o \in [1..Cardinality(S) -> S] : \A i, j \in 1..Cardinality(S) : i # j => o[i] # o[j]}

----------------------------------------------------------------------------
(* The run.                                                                 *)

\* the state of a run before its first step, for a tree and a manifest
Start(fs, ds, m) ==
    /\ fsFiles = fs
    /\ dstate = ds
    /\ manifest = m
    /\ pc = "scan"
    /\ stack = << <<>> >>
    /\ files = {}
    /\ root = <<>>
    /\ all_imports = {}
    /\ opened = <<>>
    /\ lastResult = {}
    /\ lastTree = ModuleNode(<<>>)
    /\ imports = {}
    /\ lineIdx = 0
    /\ pkgs = {}
    /\ reqs = {}
    /\ stdout = <<>>
    /\ err = NoError

Init ==
    \* any tree of files and directories, one manifest
    \/ \E fs \in FileSets, ds \in DirStates :
          Start(fs, ds, OkManifest(<<L_os_ge>>))
    \* one source file, any one-line manifest
    \/ \E line \in AllLines :
          Start(SingleFile(ModuleNode(<<ImportStmt(<<Alias(S_os, <<>>)>>)>>)),
                AllOk, OkManifest(<<line>>))
    \* any source file, the written manifests
    \/ \E tree \in Trees, m \in WrittenManifests \cup OverlapManifests :
          Start(SingleFile(tree), AllOk, m)

\* os.walk resumes: the next directory of the stack is listed and yielded, or
\* skipped when it cannot be listed
WalkNext ==
    /\ pc = "scan"
    /\ files = {}
    /\ stack # <<>>
    /\ LET top == Head(stack)
       IN IF scandir_fails(dstate[top])
          THEN /\ stack' = Tail(stack)
               /\ UNCHANGED <<files, root>>
          ELSE /\ files' = {f \in fsFiles : f.dir = top}
               /\ root' = top
               /\ \E order \in Orderings({q \in SubDirs(top) : walk_enters(dstate[q])}) :
                     stack' = order \o Tail(stack)
    /\ UNCHANGED <<fsFiles, dstate, manifest, pc, all_imports, opened, lastResult,
                   lastTree, imports, lineIdx, pkgs, reqs, stdout, err>>

\* one iteration of "for file in files"
VisitFile ==
    /\ pc = "scan"
    /\ \E f \in files :
          IF ~is_source(f.name)
          THEN /\ files' = files \ {f}
               /\ UNCHANGED <<pc, all_imports, opened, lastResult, lastTree, err>>
          ELSE /\ opened' = Append(opened, Append(root, f.name))
               /\ IF file_outcome(f) = "ok"
                  THEN /\ all_imports' = all_imports \cup find_imports(f.tree)
                       /\ lastResult' = find_imports(f.tree)
                       /\ lastTree' = f.tree
                       /\ files' = files \ {f}
                       /\ UNCHANGED <<pc, err>>
                  ELSE IF propagates(file_outcome(f))
                  THEN /\ pc' = "aborted"
                       /\ err' = [type |-> file_outcome(f), at |-> "scan"]
                       /\ UNCHANGED <<files, all_imports, lastResult, lastTree>>
                  ELSE /\ files' = files \ {f}
                       /\ UNCHANGED <<pc, all_imports, lastResult, lastTree, err>>
    /\ UNCHANGED <<fsFiles, dstate, manifest, stack, root, imports, lineIdx, pkgs,
                   reqs, stdout>>

\* os.walk is exhausted: scan_all_py_files returns all_imports
ScanReturn ==
    /\ pc = "scan"
    /\ files = {}
    /\ stack = <<>>
    /\ imports' = all_imports
    /\ pc' = "print1"
    /\ UNCHANGED <<fsFiles, dstate, manifest, stack, files, root, all_imports, opened,
                   lastResult, lastTree, lineIdx, pkgs, reqs, stdout, err>>

Print1 ==
    /\ pc = "print1"
    /\ stdout' = Append(stdout, [label |-> LabelImports, list |-> Sorted(imports)])
    /\ pc' = "open"
    /\ UNCHANGED <<fsFiles, dstate, manifest, stack, files, root, all_imports, opened,
                   lastResult, lastTree, imports, lineIdx, pkgs, reqs, err>>

\* read_requirements: pkgs = set(); open(reqfile, 'r')
OpenManifest ==
    /\ pc = "open"
    /\ IF manifest_open_fails(manifest)
       THEN /\ pc' = "aborted"
            /\ err' = [type |-> "OSError", at |-> "manifest"]
            /\ UNCHANGED <<lineIdx, pkgs>>
       ELSE /\ pc' = "read"
            /\ lineIdx' = 0
            /\ pkgs' = {}
            /\ UNCHANGED err
    /\ UNCHANGED <<fsFiles, dstate, manifest, stack, files, root, all_imports, opened,
                   lastResult, lastTree, imports, reqs, stdout>>

\* one iteration of "for line in f"
ReadLine ==
    /\ pc = "read"
    /\ lineIdx < Len(manifest.lines)
    /\ pkgs' = pkgs \cup line_packages(manifest.lines[lineIdx + 1])
    /\ lineIdx' = lineIdx + 1
    /\ UNCHANGED <<fsFiles, dstate, manifest, pc, stack, files, root, all_imports,
                   opened, lastResult, lastTree, imports, reqs, stdout, err>>

\* read_requirements returns pkgs
ReqReturn ==
    /\ pc = "read"
    /\ lineIdx = Len(manifest.lines)
    /\ reqs' = pkgs
    /\ pc' = "print2"
    /\ UNCHANGED <<fsFiles, dstate, manifest, stack, files, root, all_imports, opened,
                   lastResult, lastTree, imports, lineIdx, pkgs, stdout, err>>

Print2 ==
    /\ pc = "print2"
    /\ stdout' = Append(stdout, [label |-> LabelPackages, list |-> Sorted(reqs)])
    /\ pc' = "print3"
    /\ UNCHANGED <<fsFiles, dstate, manifest, stack, files, root, all_imports, opened,
                   lastResult, lastTree, imports, lineIdx, pkgs, reqs, err>>

Print3 ==
    /\ pc = "print3"
    /\ stdout' = Append(stdout, [label |-> LabelMissing,
                                 list |-> Sorted(missing_of(imports, reqs))])
    /\ pc' = "print4"
    /\ UNCHANGED <<fsFiles, dstate, manifest, stack, files, root, all_imports, opened,
                   lastResult, lastTree, imports, lineIdx, pkgs, reqs, err>>

Print4 ==
    /\ pc = "print4"
    /\ stdout' = Append(stdout, [label |-> LabelUnused,
                                 list |-> Sorted(unused_of(imports, reqs))])
    /\ pc' = "done"
    /\ UNCHANGED <<fsFiles, dstate, manifest, stack, files, root, all_imports, opened,
                   lastResult, lastTree, imports, lineIdx, pkgs, reqs, err>>

Next ==
    \/ WalkNext
    \/ VisitFile
    \/ ScanReturn
    \/ Print1
    \/ OpenManifest
    \/ ReadLine
    \/ ReqReturn
    \/ Print2
    \/ Print3
    \/ Print4

Spec == Init /\ [][Next]_vars

----------------------------------------------------------------------------
(* Vocabulary of the properties.                                            *)

Min(S) == CHOOSE x \in S : \A y \in S : x <= y
Last(s) == s[Len(s)]

\* scan_all_py_files has returned to __main__
ScanReturned == pc \in {"print1", "open", "read", "print2", "print3", "print4", "done"}
\* read_requirements has returned to __main__
ManifestRead == pc \in {"print2", "print3", "print4", "done"}

\* the positions of a line where one of the three markers starts
MarkerStarts(line) ==
    {i \in 1..Len(line) :
        Occurs(line, S_eqeq, i) \/ Occurs(line, S_ge, i) \/ Occurs(line, S_le, i)}

\* the line cut at the earliest marker, whichever marker that is
CutAtEarliestMarker(line) ==
    IF MarkerStarts(line) = {} THEN line ELSE Take(line, Min(MarkerStarts(line)) - 1)

\* the declared names of a manifest, as the documentation defines them
DeclaredNames(lines) ==
    UNION { LET t == Strip(lines[i])
            IN IF t = <<>> \/ t[1] = "#" THEN {} ELSE {Lower(CutAtEarliestMarker(t))}
            : i \in 1..Len(lines) }

\* the part of a dotted path before its first dot
FirstSegment(path) ==
    Take(path, CHOOSE k \in 0..Len(path) :
                  /\ \A i \in 1..k : path[i] # "."
                  /\ k = Len(path) \/ path[k + 1] = ".")

\* every node of a syntax tree, by descent through the statement bodies
RECURSIVE Statements_of(_)
Statements_of(node) ==
    {node} \cup UNION {Statements_of(node.body[i]) : i \in 1..Len(node.body)}

\* the module paths X of every "import X" alias and every "from X import" statement
ImportedPaths(tree) ==
    UNION { IF n.type = "Import" THEN {n.names[k].name : k \in 1..Len(n.names)}
            ELSE IF n.type = "ImportFrom" /\ n.module # <<>> THEN {n.module}
            ELSE {}
            : n \in Statements_of(tree) }

\* the names after "as" and the member names after "from X import"
BoundNames(tree) ==
    UNION { ({n.names[k].asname : k \in 1..Len(n.names)} \ {<<>>})
            \cup (IF n.type = "ImportFrom"
                  THEN {n.names[k].name : k \in 1..Len(n.names)} ELSE {})
            : n \in Statements_of(tree) }

\* a directory the walk lists: it and every directory above it can be listed and,
\* below source_dir, is no symbolic link
Listed(p) == \A k \in 0..Len(p) : dstate[Take(p, k)] = "ok"

IsPyName(name) == Len(name) >= 3 /\ SubSeq(name, Len(name) - 2, Len(name)) = S_dot_py

----------------------------------------------------------------------------
(* C1: read_requirements returns exactly the lower-cased prefixes of the    *)
(* trimmed non-blank, non-comment lines, each cut at the earliest           *)
(* occurrence of any of '==', '>=', '<=' (or not cut when none occurs).     *)
C1_CutAtEarliestMarker ==
    ManifestRead => reqs = DeclaredNames(manifest.lines)

(* C2: for a file that parses, find_imports_in_file returns exactly the     *)
(* first dot-separated segments of the module paths of all import and       *)
(* from-import statements at any nesting depth; alias and member names do   *)
(* not appear, duplicates collapse.                                         *)
C2_RootsOfAllImports ==
    /\ lastResult = {FirstSegment(x) : x \in ImportedPaths(lastTree)}
    /\ \A y \in BoundNames(lastTree) :
          y \in lastResult => \E x \in ImportedPaths(lastTree) : y = FirstSegment(x)
    /\ lastTree = ModuleNode(<<ImportStmt(<<Alias(S_os, <<>>)>>),
                               ImportStmt(<<Alias(S_sys, S_s)>>)>>)
          => lastResult = {S_os, S_sys}
    /\ lastTree = ModuleNode(<<ImportFromStmt(S_foo_bar, <<Alias(S_baz, <<>>)>>, 0)>>)
          => lastResult = {<<"f", "o", "o">>}

\* an import nested two statements deep, next to a second import, has been extracted
C2_Witness ==
    /\ opened # <<>>
    /\ Len(lastTree.body) = 2
    /\ lastTree.body[1].type = "Try"
    /\ Cardinality(lastResult) = 2

(* C3 as stated: once the scan has returned, the import set is the union of *)
(* find_imports_in_file over every file of the subtree whose name ends with *)
(* '.py', whatever directory it is in.                                      *)
C3_UnionOverWholeSubtree ==
    ScanReturned =>
        imports = UNION {find_imports(f.tree) : f \in {g \in fsFiles : IsPyName(g.name)}}

(* C3 amended: once the scan has returned, the import set is the union of   *)
(* find_imports_in_file over every file whose name ends with '.py' in a     *)
(* directory the walk lists (source_dir and, recursively, the listable      *)
(* subdirectories that are not symbolic links), in whatever order the       *)
(* entries are visited; other files contribute nothing.                     *)
C3_UnionOverListedDirs ==
    ScanReturned =>
        imports = UNION {find_imports(f.tree) :
                            f \in {g \in fsFiles : IsPyName(g.name) /\ Listed(g.dir)}}

\* the scan has returned the imports of a file two directories deep while a '.py'
\* file sat in a directory it could not list
C3_Witness ==
    /\ pc = "print1"
    /\ \E f \in fsFiles :
          Len(f.dir) = 2 /\ IsPyName(f.name) /\ imports = find_imports(f.tree) /\ imports # {}
    /\ \E g \in fsFiles : IsPyName(g.name) /\ ~Listed(g.dir)

----------------------------------------------------------------------------
(* Vocabulary of the report.                                                *)

Labels == <<LabelImports, LabelPackages, LabelMissing, LabelUnused>>

\* the printed list of line i, and its elements
Printed(i) == stdout[i].list
PrintedSet(i) == Range(stdout[i].list)

\* ascending, and so without duplicates
Ascending(list) == \A i, j \in 1..Len(list) : i < j => StrLess(list[i], list[j])

LowerSet(S) == {Lower(x) : x \in S}

ContainsMarker(name) == MarkerStarts(name) # {}

Digits == {"0", "1", "2", "3", "5"}
\* operator characters, digits and blanks: what version metadata is written with
VersionChars == {"<", ">", "=", "~", "!", " "} \cup Digits

\* the file the last open() was given
LastOpened ==
    CHOOSE f \in fsFiles : Append(f.dir, f.name) = Last(opened)

----------------------------------------------------------------------------
(* C4: a successful run prints the sorted Import Set, the sorted Declared   *)
(* Set, the sorted missing list (Import Set minus Declared Set) and the     *)
(* sorted unused list (Declared Set minus Import Set), in this order; the   *)
(* two differences are disjoint, each lies in its own set and shares        *)
(* nothing with the other set; every list is ascending without duplicates.  *)
C4_ReportOfDifferences ==
    pc = "done" =>
        /\ Len(stdout) = 4
        /\ \A i \in 1..4 : stdout[i].label = Labels[i] /\ Ascending(Printed(i))
        /\ PrintedSet(1) = imports
        /\ PrintedSet(2) = reqs
        /\ PrintedSet(3) = PrintedSet(1) \ PrintedSet(2)
        /\ PrintedSet(4) = PrintedSet(2) \ PrintedSet(1)
        /\ PrintedSet(3) \cap PrintedSet(4) = {}
        /\ PrintedSet(3) \subseteq imports /\ PrintedSet(3) \cap reqs = {}
        /\ PrintedSet(4) \subseteq reqs /\ PrintedSet(4) \cap imports = {}

\* a finished run with two imports, of which one is missing, and an unused package
C4_Witness ==
    /\ pc = "done"
    /\ Len(Printed(1)) = 2
    /\ Len(Printed(3)) = 1
    /\ Len(Printed(4)) = 1
    /\ PrintedSet(1) \cap PrintedSet(2) # {}

(* C5 as stated: at every moment no name of the Import Set or the Declared  *)
(* Set contains a '.', and no name of the Declared Set contains version     *)
(* metadata (an operator, a version number, a blank), for the manifests     *)
(* users write.                                                             *)
C5_OnlyRootNames ==
    manifest \in WrittenManifests =>
        /\ \A n \in all_imports \cup imports : "." \notin Range(n)
        /\ \A r \in pkgs \cup reqs : "." \notin Range(r) /\ Range(r) \cap VersionChars = {}

(* C5 amended: at every moment no name of the Import Set contains a '.',    *)
(* and every name of the Declared Set is lower-case and contains none of    *)
(* the three markers '==', '>=', '<='; a declared name may still contain a  *)
(* '.', another operator ('>', '~=', '!='), a version number or the blank   *)
(* that preceded an operator.                                               *)
C5_RootImportsAndMarkerFreeNames ==
    /\ \A n \in all_imports \cup imports \cup lastResult : "." \notin Range(n)
    /\ \A r \in pkgs \cup reqs : ~ContainsMarker(r) /\ Lower(r) = r

\* the manifest line 'pkg>1.0' has been read and declared whole, next to an import
C5_Witness ==
    /\ pc = "done"
    /\ L_pkg_gt \in reqs
    /\ imports # {}

(* C6: whenever the imported root names and the declared names are equal    *)
(* once both sides are lower-cased, the run reports an empty missing list   *)
(* and an empty unused list.                                                *)
C6_CaseInsensitiveMatch ==
    (pc = "done" /\ LowerSet(imports) = LowerSet(reqs)) =>
        Printed(3) = <<>> /\ Printed(4) = <<>>

----------------------------------------------------------------------------
C8_AnyIOErrorAbortsScan ==
    ScanReturned =>
        /\ dstate[<<>>] = "ok"
        /\ \A p \in DirPaths \ {<<>>} : Listed(Take(p, Len(p) - 1)) => dstate[p] # "denied"
        /\ \A f \in fsFiles : (IsPyName(f.name) /\ Listed(f.dir)) => f.kind = "file"

(* C8 amended: an I/O error on opening a '.py' entry of a listed directory  *)
(* (an unreadable file, a broken symbolic link) ends the scan immediately   *)
(* with that error and no import set; a directory that cannot be listed and *)
(* a source_dir that is missing or cannot be listed raise nothing: the walk *)
(* skips them and the scan returns the set built from the rest (the empty   *)
(* set for source_dir).                                                     *)
C8_FileIOErrorAbortsScan ==
    /\ ScanReturned =>
          \A f \in fsFiles : (IsPyName(f.name) /\ Listed(f.dir)) => f.kind = "file"
    /\ (err.type = "OSError" /\ err.at = "scan") =>
          /\ pc = "aborted"
          /\ LastOpened.kind \in {"unreadable", "brokenlink"}
          /\ imports = {} /\ stdout = <<>>
          /\ ~ENABLED Next
    /\ err.at = "scan" => opened # <<>> /\ file_outcome(LastOpened) = err.type
    /\ (pc \in {"aborted", "done"} /\ scandir_fails(dstate[<<>>])) =>
          /\ opened = <<>> /\ imports = {}
          /\ err.at # "scan"

\* the scan has stopped at a broken symbolic link, the second file it opened
C8_Witness ==
    /\ err.type = "OSError" /\ err.at = "scan"
    /\ Len(opened) = 2
    /\ LastOpened.kind = "brokenlink"
    /\ all_imports # {}

(* C9: what is printed is a prefix of the four report lines in their order; *)
(* the first line is printed after the scan has succeeded and before the    *)
(* manifest is opened, the other three after the manifest has been read to  *)
(* its end.  A failure during the scan leaves nothing printed, a manifest   *)
(* that cannot be opened leaves exactly the first line.                     *)
C9_OutputIsPrefixOfReport ==
    /\ Len(stdout) <= 4
    /\ \A i \in 1..Len(stdout) : stdout[i].label = Labels[i]
    /\ Len(stdout) >= 1 => (ScanReturned \/ err.at = "manifest") /\ err.at # "scan"
    /\ (pc = "read" \/ ManifestRead \/ err.at = "manifest") => Len(stdout) >= 1
    /\ Len(stdout) >= 2 =>
          /\ manifest.kind = "ok"
          /\ lineIdx = Len(manifest.lines)
          /\ ManifestRead
    /\ err.at = "scan" => stdout = <<>>
    /\ (manifest.kind # "ok" /\ pc \in {"aborted", "done"} /\ err.at # "scan") =>
          /\ pc = "aborted" /\ err.at = "manifest"
          /\ Len(stdout) = 1

\* the run has ended on a missing manifest after printing a non-empty import list
C9_Witness ==
    /\ pc = "aborted"
    /\ manifest.kind = "missing"
    /\ Len(stdout) = 1
    /\ Printed(1) # <<>>

\* the tree with every from-import made absolute
RECURSIVE Absolute(_)
Absolute(node) ==
    [node EXCEPT !.level = 0,
                 !.body = [i \in 1..Len(node.body) |-> Absolute(node.body[i])]]

\* the relative from-imports of a tree
RelativeImports(tree) == {n \in Statements_of(tree) : n.type = "ImportFrom" /\ n.level > 0}
\* its import statements of every kind
ImportStatements(tree) == {n \in Statements_of(tree) : n.type \in {"Import", "ImportFrom"}}

(* C10: a relative from-import contributes its module's first segment if    *)
(* and only if it names a module, however many dots lead it: the result is  *)
(* that of the same file with absolute imports, a file whose only imports   *)
(* are 'from . import x' forms yields nothing, and the name of a relatively *)
(* imported module is listed as possibly missing unless declared.           *)
C10_RelativeImportsByModuleName ==
    /\ \A n \in RelativeImports(lastTree) :
          n.module # <<>> => FirstSegment(n.module) \in lastResult
    /\ (\A n \in ImportStatements(lastTree) : n \in RelativeImports(lastTree) /\ n.module = <<>>)
          => lastResult = {}
    /\ lastResult = find_imports(Absolute(lastTree))
    /\ pc = "done" =>
          \A n \in RelativeImports(lastTree) :
             (n.module # <<>> /\ FirstSegment(n.module) \notin reqs)
                => FirstSegment(n.module) \in PrintedSet(3)

\* a finished run over 'from ..pkg import x' that lists pkg as possibly missing
C10_Witness ==
    /\ pc = "done"
    /\ \E n \in RelativeImports(lastTree) : n.level = 2 /\ n.module = S_pkg
    /\ S_pkg \in PrintedSet(3)

====
